---- MODULE Spec2Model ----
(***************************************************************************)
(* cute-sway-recorder: the recording controller of the Qt application.     *)
(*                                                                         *)
(* The repository holds several historical variants of the controller.     *)
(* Each behaviour of this model runs one of them, chosen by `variant`:     *)
(*   "legacy"      src/main.py (area only, no button enablement)           *)
(*   "app"         src/cute_sway_recorder/main.py (area or screen, audio)  *)
(*   "config_area" src/cute_sway_recorder/config_area.py (ConfigArea)      *)
(*   "groupbox"    src/cute_sway_recorder/groupbox_selection.py            *)
(*   "session"     the session controller with the delayed start, which    *)
(*                 no file of the source holds (spec sections 4.4, 4.5)    *)
(*   "startup"     main() of src/cute_sway_recorder/main.py while the      *)
(*                 window is constructed; it becomes "app" when the event  *)
(*                 loop starts (SpecStartup)                               *)
(* Three more values of `variant` run one function each on the inputs of   *)
(* its Init: "SelectedArea" and "SelectedScreen" (common.py), and          *)
(* "ConfigFile" (config_file.py).                                          *)
(* The variables are the fields of the running variant's objects, plus the *)
(* environment the handlers talk to (file system, recorder processes) and  *)
(* `last`, the log of what the last handler did, in order.                 *)
(***************************************************************************)
EXTENDS Integers, Sequences, FiniteSets, TLC

VARIABLES
  variant,                  \* which variant of the program is running
  selected_area,            \* self.selected_area
  selected_screen,          \* self.selected_screen
  recorder_proc,            \* self.recorder_proc: 0 is None, else index in procs
  file_dst,                 \* self.file_dst / self.file_dest
  is_whole_screen_selected, \* self.is_whole_screen_selected
  use_audio,                \* self.checkbox_use_audio.isChecked()
  btn_enabled,              \* isEnabled() of each button
  window_visible,           \* self.window is shown
  icon_visible,             \* the tray icon is shown
  lbl_is_recording,         \* text of self.lbl_is_recording
  lbl_whole_screen_notice,  \* self.lbl_whole_screen_notice is shown
  lbl_file_dst,             \* text of self.lbl_file_dst
  procs,                    \* every recorder process spawned so far
  existing,                 \* the paths that exist on the file system
  last,                     \* what the last handler did: [op, events, ret]
  input,                    \* argument of a function under test; at main(),
                            \* the commands in PATH
  result,                   \* its outcome; of main(), how far it has come
  delay_seconds,            \* the delay a recording is asked to start after
  session,                  \* the Session aggregate of a delayed start
  scheduler                 \* the countdown of the DelayScheduler

vars == <<variant, selected_area, selected_screen, recorder_proc, file_dst,
          is_whole_screen_selected, use_audio, btn_enabled, window_visible,
          icon_visible, lbl_is_recording, lbl_whole_screen_notice,
          lbl_file_dst, procs, existing, last, input, result,
          delay_seconds, session, scheduler>>

\* The widgets and selection fields of the controller.
uiVars == <<selected_area, selected_screen, file_dst, is_whole_screen_selected,
            use_audio, btn_enabled, window_visible, icon_visible,
            lbl_whole_screen_notice, lbl_file_dst>>

\* The delay and the countdown, which the windows below do not have.
delayVars == <<delay_seconds, session, scheduler>>

\* What no handler of the windows below touches.
outsideVars == <<input, result, delayVars>>

-----------------------------------------------------------------------------
(* Bounds of the model *)

\* At most this many recorder processes are spawned in one behaviour.
MaxProcs == 2

-----------------------------------------------------------------------------
(* Values *)

\* Python's None.
None == "None"

\* Python truthiness of an Optional[str].
Truthy(x) == x # None /\ x # ""

\* Outputs of slurp with -f "%x,%y %wx%h".
Areas == {"1,1 1x1", "10,10 40x40"}

\* Names of outputs as the compositor reports them.
Screens == {"eDP-1", "HDMI-A-1"}

\* What the output enumeration may return: one monitor, or two.
ScreenLists == {<<"eDP-1">>, <<"eDP-1", "HDMI-A-1">>}

\* The default destination make_default_file_dst() draws, and picked ones.
DefaultDst == "~/Videos/cute-NOwPn.mp4"
PickedDst == "/tmp/out.mp4"
Paths == {DefaultDst, PickedDst}

Buttons == {"pick_dest", "select_area", "select_whole_screen",
            "start_recording", "stop_recording"}

set_buttons_state(b, btns, enabled) ==
  [n \in DOMAIN b |-> IF n \in btns THEN enabled ELSE b[n]]

\* The log of a handler: its name, what it did in order, and what it returned
\* (the empty tuple for None).
LogRet(op, events, ret) == [op |-> op, events |-> events, ret |-> ret]

Log(op, events) == LogRet(op, events, <<>>)

NoLog == Log("init", <<>>)

\* How often event e occurs in the sequence evs.
Count(evs, e) == Cardinality({i \in DOMAIN evs : evs[i] = e})

Has(evs, e) == \E i \in DOMAIN evs : evs[i] = e

\* delay_remaining of a session that is not counting down.
NoDelay == -1

\* The Session at start-up, and after every return to Idle.
IdleSession ==
  [state |-> "Idle", config |-> <<>>, process_handle |-> 0,
   delay_remaining |-> NoDelay]

\* The DelayScheduler before its first start. `seconds` is what it was started
\* with, `ticks` the remaining values on_tick was called with, in order, and
\* `completes` how often on_complete was called.
IdleScheduler ==
  [active |-> FALSE, seconds |-> 0, remaining |-> 0, ticks |-> <<>>,
   completes |-> 0, cancelled |-> FALSE]

\* The windows that start at once have no delay and no countdown.
NoDelayVars ==
  /\ delay_seconds = 0
  /\ session = IdleSession
  /\ scheduler = IdleScheduler

-----------------------------------------------------------------------------
(* src/cute_sway_recorder/common.py *)

Digits == {"0", "1", "2", "3", "4", "5", "6", "7", "8", "9"}

\* PATTERN_SELECTED_AREA = re.compile(r"\d+,\d+ \d+x\d+"), token by token.
PATTERN_SELECTED_AREA == <<"\\d+", ",", "\\d+", " ", "\\d+", "x", "\\d+">>

\* The regular expression engine: the tokens of pat from the k-th on match s
\* from position i on. A "\d+" takes one digit or more and backtracks over how
\* many; a literal takes itself. Nothing is required after the last token.
RECURSIVE re_match_from(_, _, _, _)
re_match_from(pat, s, i, k) ==
  IF k > Len(pat) THEN TRUE
  ELSE IF pat[k] = "\\d+"
    THEN \E j \in 1 .. (Len(s) - i + 1) :
           /\ \A m \in i .. (i + j - 1) : s[m] \in Digits
           /\ re_match_from(pat, s, i + j, k + 1)
  ELSE /\ i <= Len(s)
       /\ s[i] = pat[k]
       /\ re_match_from(pat, s, i + 1, k + 1)

\* Pattern.match(s): a match at the beginning of s.
re_match(pat, s) == re_match_from(pat, s, 1, 1)

\* SelectedArea.__init__ on the characters of s: "ok", or the error raised.
SelectedArea(s) ==
  IF ~re_match(PATTERN_SELECTED_AREA, s) THEN "ValueError" ELSE "ok"

\* The characters of the strings the area picker prints in this model.
Chars(str) ==
  CASE str = "1,1 1x1" -> <<"1", ",", "1", " ", "1", "x", "1">>
    [] str = "10,10 40x40" ->
         <<"1", "0", ",", "1", "0", " ", "4", "0", "x", "4", "0">>
    [] str = "-5,0 1x1" -> <<"-", "5", ",", "0", " ", "1", "x", "1">>
    [] OTHER -> <<>>

\* slurp's outputs: a region, or one reaching left of the origin of the layout.
SlurpOutputs == Areas \cup {"-5,0 1x1"}

Range(f) == {f[i] : i \in DOMAIN f}

\* SelectedScreen.__init__: every error, the ValueError for an unknown screen
\* included, leaves the try block as a RuntimeError.
SelectedScreen(s, screens) ==
  IF s \notin Range(screens) THEN "RuntimeError" ELSE "ok"

\* What detect_compositor() looks at: the two environment variables, and
\* whether running wlr-randr succeeds.
EnvFacts == {"SWAYSOCK", "HYPRLAND_INSTANCE_SIGNATURE", "wlr-randr"}

\* detect_compositor(): the compositor, or the ValueError it raises.
detect_compositor(env) ==
  IF "SWAYSOCK" \in env THEN "sway"
  ELSE IF "HYPRLAND_INSTANCE_SIGNATURE" \in env THEN "hyprland"
  ELSE IF "wlr-randr" \in env THEN "wlr-randr"
  ELSE "ValueError"

\* apply_compositor_rules(compositor): the error it raises, or None.
apply_compositor_rules(compositor) ==
  IF compositor \in {"sway", "hyprland", "wlr-randr"} THEN None ELSE "ValueError"

\* What the enumeration command does: it fails (err), or prints the outputs.
EnumerationOutcomes ==
  {[err |-> e, screens |-> <<>>] : e \in {"CalledProcessError", "JSONDecodeError"}}
    \cup {[err |-> None, screens |-> l] :
            l \in {<<>>, <<"eDP-1">>, <<"eDP-1", "HDMI-A-1">>}}

\* get_available_screens(compositor), the command ending as `out`: the list of
\* names, or the error raised.
get_available_screens(compositor, out) ==
  IF compositor \notin {"sway", "hyprland", "wlr-randr"}
    THEN [raised |-> "ValueError", screens |-> <<>>]
  ELSE IF out.err # None
    THEN [raised |-> "RuntimeError", screens |-> <<>>]
  ELSE [raised |-> None, screens |-> out.screens]

\* SelectedScreen.__init__ as a whole (lines 84-94): what it raises, and the
\* error that one wraps. Whatever goes wrong inside the try block, the
\* ValueError for an unknown screen included, comes out as a RuntimeError.
SelectedScreen_init(s, env, out) ==
  LET compositor == detect_compositor(env)
      listed == get_available_screens(compositor, out)
  IN IF compositor = "ValueError"
       THEN [raised |-> "RuntimeError", cause |-> "ValueError"]
     ELSE IF apply_compositor_rules(compositor) # None
       THEN [raised |-> "RuntimeError", cause |-> "ValueError"]
     ELSE IF listed.raised # None
       THEN [raised |-> "RuntimeError", cause |-> listed.raised]
     ELSE IF SelectedScreen(s, listed.screens) # "ok"
       THEN [raised |-> "RuntimeError", cause |-> "ValueError"]
     ELSE [raised |-> None, cause |-> None]

-----------------------------------------------------------------------------
(* src/cute_sway_recorder/main.py: module-level functions *)

\* Path().absolute(), the directory the program runs in.
Cwd == "."

\* What QFileDialog.getSaveFileName returns: "" when dismissed, else a path.
DialogDests == {"", "/tmp/out.mp4", "/tmp/out"}

\* PATTERN_FILE_WITH_SUFFIX.match(dest): the path holds a dot.
PATTERN_FILE_WITH_SUFFIX(dest) == dest \in {"/tmp/out.mp4", DefaultDst}

\* select_area() (lines 59-70): slurp runs, and returns None when it was
\* cancelled. What the handlers log of it.
slurp_events(picked) ==
  IF picked = None THEN <<"slurp", "cancelled">> ELSE <<"slurp">>

\* The mutation of start_recording that emits the geometry flag for a screen.
start_recording_swapped(file_dst_, include_audio, area, screen) ==
  IF Truthy(area) /\ Truthy(screen)
    THEN [raised |-> "ValueError", argv |-> <<>>]
    ELSE LET dst == IF file_dst_ = None THEN Cwd ELSE file_dst_
             p0 == <<"wf-recorder", "-f", dst>>
             p1 == IF include_audio THEN Append(p0, "--audio") ELSE p0
             p2 == IF Truthy(area) THEN p1 \o <<"--output", area>> ELSE p1
             p3 == IF Truthy(screen) THEN p2 \o <<"--geometry", screen>> ELSE p2
         IN [raised |-> None, argv |-> p3]

\* start_recording: the ValueError for area and screen together, else the
\* argument vector handed to subprocess.Popen.
start_recording(file_dst_, include_audio, area, screen) ==
  IF Truthy(area) /\ Truthy(screen)
    THEN [raised |-> "ValueError", argv |-> <<>>]
    ELSE LET dst == IF file_dst_ = None THEN Cwd ELSE file_dst_
             p0 == <<"wf-recorder", "-f", dst>>
             p1 == IF include_audio THEN Append(p0, "--audio") ELSE p0
             p2 == IF Truthy(area) THEN p1 \o <<"--geometry", area>> ELSE p1
             p3 == IF Truthy(screen) THEN p2 \o <<"--output", screen>> ELSE p2
         IN [raised |-> None, argv |-> p3]

\* A freshly spawned recorder process: it runs, and no signal has reached it.
Popen(argv) == [argv |-> argv, alive |-> TRUE, interrupted |-> FALSE]

\* A process that has exited: the process table holds nothing more of it.
Exited == [argv |-> <<>>, alive |-> FALSE, interrupted |-> FALSE]

\* The mutation of the stop handler that sends no signal.
send_signal_never(ps, p) == ps

\* Popen.send_signal(SIGINT): polls first, and signals only a live process.
send_signal(ps, p) ==
  IF ps[p].alive THEN [ps EXCEPT ![p].interrupted = TRUE] ELSE ps

-----------------------------------------------------------------------------
(* src/cute_sway_recorder/screen_selection.py: ScreenSelectionDialog *)

\* QDialog.Rejected: the result code QDialog.reject() ends exec() with, which
\* is what Escape and closing the dialog call.
Rejected == 0

\* What the user does with the dialog over `screens`: <<i>> clicks the button
\* of the i-th screen (0-based), <<>> closes the dialog without a choice.
DialogActs(screens) == {<<>>} \cup {<<i>> : i \in 0 .. Len(screens) - 1}

\* ScreenSelectionDialog(screens).exec(): the button made by
\* make_clicked_func(i) calls done(i); nothing overrides reject().
ScreenSelectionDialog_exec(act) == IF act = <<>> THEN Rejected ELSE act[1]

\* What the handlers log of the dialog.
dialog_events(act) == IF act = <<>> THEN <<"dialog", "reject">> ELSE <<"dialog">>

-----------------------------------------------------------------------------
(* src/cute_sway_recorder/main.py: CuteRecorderQtApplication *)

\* __init__ (the state after construction).
app_init ==
  /\ variant = "app"
  /\ selected_area = None
  /\ recorder_proc = 0
  /\ selected_screen = None
  /\ file_dst = DefaultDst
  /\ is_whole_screen_selected = FALSE
  /\ use_audio = FALSE
  /\ btn_enabled = [b \in Buttons |-> b # "stop_recording"]
  /\ window_visible = TRUE
  /\ icon_visible = FALSE
  /\ lbl_is_recording = "Not recording"
  /\ lbl_whole_screen_notice = FALSE
  /\ lbl_file_dst = <<"Saving to ", DefaultDst>>
  /\ procs = <<>>
  /\ existing \in {{}, {DefaultDst}}
  /\ last = NoLog
  /\ input = None
  /\ result = None
  /\ NoDelayVars

\* A button emits clicked only when it is shown and enabled.
app_clickable(b) == variant = "app" /\ window_visible /\ btn_enabled[b]

\* The mutation of the area handler that keeps the screen selection.
app_select_area_selection_keep(picked, area, screen) ==
  [area |-> IF Truthy(picked) THEN picked ELSE area, screen |-> screen]

\* Lines 233-234: the selection after the area picker returned `picked`.
app_select_area_selection(picked, area, screen) ==
  [area |-> IF Truthy(picked) THEN picked ELSE area, screen |-> None]

app_btn_onclick_select_area ==
  /\ app_clickable("select_area")
  /\ \E picked \in Areas \cup {None} :
       LET sel == app_select_area_selection(picked, selected_area, selected_screen)
       IN /\ selected_area' = sel.area
          /\ selected_screen' = sel.screen
          /\ is_whole_screen_selected' = FALSE
          /\ lbl_whole_screen_notice' = FALSE
          /\ last' = Log("select_area", slurp_events(picked))
  /\ UNCHANGED <<variant, recorder_proc, file_dst, use_audio, btn_enabled,
                 window_visible, icon_visible, lbl_is_recording, lbl_file_dst,
                 procs, existing, outsideVars>>

\* The mutation of the screen handler that keeps the area selection.
app_select_whole_screen_selection_keep(screens, idx, area, screen) ==
  [area |-> area,
   screen |-> IF Len(screens) > 1 THEN screens[idx + 1] ELSE screen]

\* Lines 240-246: the selection after the enumeration returned `screens` and
\* the dialog, shown for more than one screen, returned `idx` (0-based).
app_select_whole_screen_selection(screens, idx, area, screen) ==
  [area |-> None,
   screen |-> IF Len(screens) > 1 THEN screens[idx + 1] ELSE screen]

app_btn_onclick_select_whole_screen ==
  /\ app_clickable("select_whole_screen")
  /\ \E screens \in ScreenLists :
     \E act \in (IF Len(screens) > 1 THEN DialogActs(screens) ELSE {<<0>>}) :
     LET idx == ScreenSelectionDialog_exec(act) IN
       IF Len(screens) > 1 /\ idx = -1
         THEN /\ last' = Log("select_whole_screen",
                             <<"get_outputs", "dialog", "dismissed">>)
              /\ UNCHANGED <<selected_area, selected_screen,
                             lbl_whole_screen_notice, is_whole_screen_selected>>
         ELSE LET sel == app_select_whole_screen_selection(
                           screens, idx, selected_area, selected_screen)
              IN /\ selected_area' = sel.area
                 /\ selected_screen' = sel.screen
                 /\ lbl_whole_screen_notice' = TRUE
                 /\ is_whole_screen_selected' = TRUE
                 /\ last' = Log("select_whole_screen",
                                IF Len(screens) > 1
                                  THEN <<"get_outputs">> \o dialog_events(act)
                                  ELSE <<"get_outputs">>)
  /\ UNCHANGED <<variant, recorder_proc, file_dst, use_audio, btn_enabled,
                 window_visible, icon_visible, lbl_is_recording, lbl_file_dst,
                 procs, existing, outsideVars>>

\* The user ticks or unticks the "Record audio" checkbox.
app_checkbox_use_audio ==
  /\ variant = "app" /\ window_visible
  /\ use_audio' = ~use_audio
  /\ last' = Log("checkbox_use_audio", <<>>)
  /\ UNCHANGED <<variant, selected_area, selected_screen, recorder_proc, file_dst,
                 is_whole_screen_selected, btn_enabled, window_visible,
                 icon_visible, lbl_is_recording, lbl_whole_screen_notice,
                 lbl_file_dst, procs, existing, outsideVars>>

app_btn_onclick_pick_dst ==
  /\ app_clickable("pick_dest")
  /\ \E picked \in DialogDests :
       IF picked = ""
         THEN UNCHANGED <<file_dst, lbl_file_dst>>
         ELSE LET dest == IF PATTERN_FILE_WITH_SUFFIX(picked)
                            THEN picked ELSE picked \o ".mp4"
              IN /\ file_dst' = dest
                 /\ lbl_file_dst' = <<"Saving as: ", dest>>
  /\ last' = Log("pick_dst", <<"getSaveFileName">>)
  /\ UNCHANGED <<variant, selected_area, selected_screen, recorder_proc,
                 is_whole_screen_selected, use_audio, btn_enabled,
                 window_visible, icon_visible, lbl_is_recording,
                 lbl_whole_screen_notice, procs, existing, outsideVars>>

\* The mutation of the start handler that never asks before overwriting.
app_start_asks_never == FALSE

\* Lines 252-253: the overwrite question is asked iff the destination exists.
app_start_asks == file_dst \in existing

\* The mutation of the start handler that goes on whatever the answer is.
app_start_declined_never(resp) == FALSE

\* Lines 253-263: the destination exists and the user answered No.
app_start_declined(resp) == app_start_asks /\ resp = "No"

\* The mutation of the start handler's selection test that only looks at the area.
app_start_no_selection_area_only == selected_area = None

\* The mutation of the start handler that never misses a selection.
app_start_no_selection_never == FALSE

\* Line 266: no area and no screen is selected.
app_start_no_selection == selected_area = None /\ selected_screen = None

\* The mutation of the start handler that hides the window for every target.
app_start_hides_always == TRUE

\* Line 277: the window is hidden and the tray icon shown for a whole screen.
app_start_hides == is_whole_screen_selected

\* Lines 282-289: stop is enabled, every other button is disabled.
app_start_buttons(b) ==
  set_buttons_state(
    set_buttons_state(b, {"stop_recording"}, TRUE),
    {"pick_dest", "select_area", "select_whole_screen", "start_recording"}, FALSE)

\* btn_onclick_start_recording. `resp` is the answer to the overwrite question,
\* `spawn_ok` whether mkdir and Popen succeed (they raise OSError otherwise).
app_btn_onclick_start_recording ==
  /\ app_clickable("start_recording")
  /\ Len(procs) < MaxProcs
  /\ \E resp \in {"Yes", "No"}, spawn_ok \in BOOLEAN :
       LET asked == IF app_start_asks THEN <<"question", resp>> ELSE <<>>
           call == start_recording(file_dst, use_audio, selected_area, selected_screen)
           shown == IF app_start_hides
                      THEN <<"window.hide", "icon.show">> ELSE <<>>
       IN IF app_start_declined(resp)
            THEN /\ lbl_is_recording' = "Not recording"
                 /\ last' = Log("start_recording", asked)
                 /\ UNCHANGED <<btn_enabled, window_visible, icon_visible,
                                recorder_proc, procs, existing, lbl_file_dst>>
          ELSE IF app_start_no_selection
            THEN /\ last' = Log("start_recording", asked \o <<"warning">>)
                 /\ UNCHANGED <<btn_enabled, window_visible, icon_visible,
                                recorder_proc, procs, existing, lbl_file_dst,
                                lbl_is_recording>>
          ELSE /\ window_visible' = (window_visible /\ ~app_start_hides)
               /\ icon_visible' = (icon_visible \/ app_start_hides)
               /\ btn_enabled' = app_start_buttons(btn_enabled)
               /\ IF call.raised # None
                    THEN /\ last' = Log("start_recording",
                                asked \o shown \o <<"buttons", "start_recording", call.raised>>)
                         /\ UNCHANGED <<recorder_proc, procs, existing,
                                        lbl_file_dst, lbl_is_recording>>
                  ELSE IF ~spawn_ok
                    THEN /\ last' = Log("start_recording",
                                asked \o shown \o <<"buttons", "start_recording", "OSError">>)
                         /\ UNCHANGED <<recorder_proc, procs, existing,
                                        lbl_file_dst, lbl_is_recording>>
                  ELSE /\ procs' = Append(procs, Popen(call.argv))
                       /\ recorder_proc' = Len(procs) + 1
                       /\ existing' = existing \cup {file_dst}
                       /\ lbl_is_recording' = "RECORDING"
                       /\ lbl_file_dst' = <<"Saving as: ", file_dst>>
                       /\ last' = Log("start_recording",
                                asked \o shown \o <<"buttons", "start_recording", "Popen">>)
  /\ UNCHANGED <<variant, selected_area, selected_screen, file_dst,
                 is_whole_screen_selected, use_audio, lbl_whole_screen_notice,
                 outsideVars>>

\* Lines 304-311: stop is disabled, every other button is enabled.
app_stop_buttons(b) ==
  set_buttons_state(
    set_buttons_state(b, {"stop_recording"}, FALSE),
    {"pick_dest", "select_area", "select_whole_screen", "start_recording"}, TRUE)

\* The mutation of the stop handler that discards the handle.
app_stop_handle_discarded(p) == 0

\* Lines 303-316: the stop handler does not assign recorder_proc.
app_stop_handle(p) == p

\* The body of btn_onclick_stop_recording, after the events `before`.
app_stop_recording(before) ==
  /\ btn_enabled' = app_stop_buttons(btn_enabled)
  /\ recorder_proc' = app_stop_handle(recorder_proc)
  /\ IF recorder_proc = 0
       THEN /\ last' = Log("stop_recording", before \o <<"buttons", "AttributeError">>)
            /\ UNCHANGED <<procs, lbl_is_recording, lbl_file_dst>>
       ELSE /\ procs' = send_signal(procs, recorder_proc)
            /\ lbl_is_recording' = "Done recording"
            /\ lbl_file_dst' = <<"Saved to: ", file_dst>>
            /\ last' = Log("stop_recording", before \o <<"buttons", "send_signal">>)
  /\ UNCHANGED <<variant, selected_area, selected_screen, file_dst,
                 is_whole_screen_selected, use_audio, lbl_whole_screen_notice,
                 existing, outsideVars>>

app_btn_onclick_stop_recording ==
  /\ app_clickable("stop_recording")
  /\ app_stop_recording(<<>>)
  /\ UNCHANGED <<window_visible, icon_visible>>

\* The tray icon is clicked (reason Trigger): it can be only while it is shown.
app_tray_icon_activated_handler ==
  /\ variant = "app" /\ icon_visible
  /\ window_visible' = TRUE
  /\ icon_visible' = FALSE
  /\ app_stop_recording(<<"window.show", "icon.hide">>)

-----------------------------------------------------------------------------
(* src/cute_sway_recorder/main.py: main() up to the event loop *)

\* The executables __init__ asks for, in the order of lines 174-175.
Executables == <<"wf-recorder", "slurp">>

\* subprocess.run(["which", cmd]).returncode == 0: cmd is in PATH. In a
\* behaviour that starts with main(), input is the set of commands in PATH.
which(cmd) == cmd \in input

\* Line 218: the text of the critical popup for cmd.
not_in_PATH(cmd) ==
  IF cmd = "wf-recorder" THEN "wf-recorder not in PATH please install it :("
                         ELSE "slurp not in PATH please install it :("

\* The mutation of cmd_available_or_exit that never exits.
cmd_available_or_exit_never(cmd) == FALSE

\* cmd_available_or_exit(cmd) shows the critical popup and calls sys.exit(1).
cmd_available_or_exit(cmd) == ~which(cmd)

\* The process at main(): the window object is being constructed, nothing is
\* shown, and the event loop of app.exec() has not been entered.
startup_init ==
  /\ variant = "startup"
  /\ selected_area = None
  /\ recorder_proc = 0
  /\ selected_screen = None
  /\ file_dst = DefaultDst
  /\ is_whole_screen_selected = FALSE
  /\ use_audio = FALSE
  /\ btn_enabled = [b \in Buttons |-> b # "stop_recording"]
  /\ window_visible = FALSE
  /\ icon_visible = FALSE
  /\ lbl_is_recording = "Not recording"
  /\ lbl_whole_screen_notice = FALSE
  /\ lbl_file_dst = <<"Saving to ", DefaultDst>>
  /\ procs = <<>>
  /\ existing \in {{}, {DefaultDst}}
  /\ last = NoLog
  /\ input \in SUBSET Range(Executables)
  /\ result = "constructing"
  /\ NoDelayVars

\* __init__ from line 171 on, and main() line 333: the window is shown, then
\* the two executables are looked up in order. The first one missing gets the
\* modal popup (which keeps clicks from the window while it is open) and
\* SystemExit(1) leaves main(), so app.exec() is never reached; with both in
\* PATH the event loop starts and the handlers above can run.
startup_construct ==
  /\ variant = "startup" /\ result = "constructing"
  /\ LET missing == {i \in DOMAIN Executables :
                       cmd_available_or_exit(Executables[i])}
         first == CHOOSE i \in missing : \A j \in missing : i <= j
     IN IF missing # {}
          THEN /\ last' = Log("__init__",
                              <<"window.show",
                                not_in_PATH(Executables[first]),
                                "sys.exit(1)">>)
               /\ result' = "exit 1"
               /\ window_visible' = FALSE
               /\ UNCHANGED variant
          ELSE /\ last' = Log("__init__", <<"window.show", "app.exec">>)
               /\ result' = None
               /\ window_visible' = TRUE
               /\ variant' = "app"
  /\ UNCHANGED <<selected_area, selected_screen, recorder_proc, file_dst,
                 is_whole_screen_selected, use_audio, btn_enabled,
                 icon_visible, lbl_is_recording, lbl_whole_screen_notice,
                 lbl_file_dst, procs, existing, input, delayVars>>

-----------------------------------------------------------------------------
(* src/main.py: the first variant, which records areas only *)

\* start_recording(area, file_dst): the argument vector handed to Popen.
legacy_start_recording(area, file_dst_) ==
  LET dst == IF file_dst_ = None THEN Cwd ELSE file_dst_
  IN <<"wf-recorder", "--geometry", area, "-f", dst>>

\* __init__: every button stays enabled for the life of the window.
legacy_init ==
  /\ variant = "legacy"
  /\ recorder_proc = 0
  /\ selected_area = None
  /\ file_dst = DefaultDst
  /\ selected_screen = None
  /\ is_whole_screen_selected = FALSE
  /\ use_audio = FALSE
  /\ btn_enabled = [b \in {"select_area", "start_recording", "stop_recording",
                           "pick_dest"} |-> TRUE]
  /\ window_visible = TRUE
  /\ icon_visible = FALSE
  /\ lbl_is_recording = "Not recording"
  /\ lbl_whole_screen_notice = FALSE
  /\ lbl_file_dst = <<"Saving to ", "~/Videos">>
  /\ procs = <<>>
  /\ existing = {}
  /\ last = NoLog
  /\ input = None
  /\ result = None
  /\ NoDelayVars

\* select_area() returns slurp's output stripped, "" when slurp was cancelled.
legacy_btn_onclick_select_area ==
  /\ variant = "legacy"
  /\ \E picked \in Areas \cup {""} :
       selected_area' = picked
  /\ last' = Log("select_area", <<"slurp">>)
  /\ UNCHANGED <<variant, selected_screen, recorder_proc, file_dst,
                 is_whole_screen_selected, use_audio, btn_enabled,
                 window_visible, icon_visible, lbl_is_recording,
                 lbl_whole_screen_notice, lbl_file_dst, procs, existing,
                 outsideVars>>

legacy_btn_onclick_start_recording ==
  /\ variant = "legacy"
  /\ Len(procs) < MaxProcs
  /\ \E spawn_ok \in BOOLEAN :
       IF selected_area = None
         THEN /\ last' = Log("start_recording", <<"warning">>)
              /\ UNCHANGED <<recorder_proc, procs, existing, lbl_is_recording,
                             lbl_file_dst>>
       ELSE IF ~spawn_ok
         THEN /\ last' = Log("start_recording", <<"start_recording", "OSError">>)
              /\ UNCHANGED <<recorder_proc, procs, existing, lbl_is_recording,
                             lbl_file_dst>>
       ELSE /\ procs' = Append(procs, Popen(legacy_start_recording(selected_area, file_dst)))
            /\ recorder_proc' = Len(procs) + 1
            /\ UNCHANGED existing
            /\ lbl_is_recording' = "RECORDING"
            /\ lbl_file_dst' = <<"Saving as: ", file_dst>>
            /\ last' = Log("start_recording", <<"start_recording", "Popen">>)
  /\ UNCHANGED <<variant, selected_area, selected_screen, file_dst,
                 is_whole_screen_selected, use_audio, btn_enabled,
                 window_visible, icon_visible, lbl_whole_screen_notice,
                 outsideVars>>

legacy_btn_onclick_stop_recording ==
  /\ variant = "legacy"
  /\ IF recorder_proc = 0
       THEN /\ last' = Log("stop_recording", <<"AttributeError">>)
            /\ UNCHANGED <<procs, lbl_is_recording, lbl_file_dst>>
       ELSE /\ procs' = send_signal(procs, recorder_proc)
            /\ lbl_is_recording' = "Done recording"
            /\ lbl_file_dst' = <<"Saved to: ", file_dst>>
            /\ last' = Log("stop_recording", <<"send_signal">>)
  /\ UNCHANGED <<variant, selected_area, selected_screen, recorder_proc, file_dst,
                 is_whole_screen_selected, use_audio, btn_enabled,
                 window_visible, icon_visible, lbl_whole_screen_notice,
                 existing, outsideVars>>

\* The picked path is taken as it is, "" of a dismissed dialog included.
legacy_btn_onclick_pick_dst ==
  /\ variant = "legacy"
  /\ \E picked \in DialogDests :
       /\ file_dst' = picked
       /\ lbl_file_dst' = <<"Saving as: ", picked>>
  /\ last' = Log("pick_dst", <<"getSaveFileName">>)
  /\ UNCHANGED <<variant, selected_area, selected_screen, recorder_proc,
                 is_whole_screen_selected, use_audio, btn_enabled,
                 window_visible, icon_visible, lbl_is_recording,
                 lbl_whole_screen_notice, procs, existing, outsideVars>>

-----------------------------------------------------------------------------
(* src/cute_sway_recorder/groupbox_selection.py: SelectionGroupbox *)

\* __init__.
groupbox_init ==
  /\ variant = "groupbox"
  /\ selected_screen = None
  /\ selected_area = None
  /\ lbl_whole_screen_notice = FALSE
  /\ btn_enabled = [b \in {"select_area", "select_whole_screen"} |-> TRUE]
  /\ recorder_proc = 0
  /\ file_dst = None
  /\ is_whole_screen_selected = FALSE
  /\ use_audio = FALSE
  /\ window_visible = TRUE
  /\ icon_visible = FALSE
  /\ lbl_is_recording = None
  /\ lbl_file_dst = <<None, None>>
  /\ procs = <<>>
  /\ existing = {}
  /\ last = NoLog
  /\ input = None
  /\ result = None
  /\ NoDelayVars

\* What the handlers of the group box leave alone.
groupboxFrame == <<variant, recorder_proc, file_dst, is_whole_screen_selected,
                   use_audio, window_visible, icon_visible, lbl_is_recording,
                   lbl_file_dst, procs, existing, outsideVars>>

\* select_area(): None when slurp was cancelled, else SelectedArea(output),
\* which raises ValueError for an output that does not match.
select_area_raises(out) == out # None /\ SelectedArea(Chars(out)) # "ok"

\* Lines 63-64: the selection after select_area() returned `picked`.
groupbox_select_area_selection(picked, area, screen) ==
  [area |-> IF Truthy(picked) THEN picked ELSE area, screen |-> None]

groupbox_btn_onclick_select_area ==
  /\ variant = "groupbox" /\ btn_enabled["select_area"]
  /\ \E out \in SlurpOutputs \cup {None} :
       IF select_area_raises(out)
         THEN /\ last' = Log("select_area", <<"slurp", "ValueError">>)
              /\ UNCHANGED <<selected_area, selected_screen, lbl_whole_screen_notice>>
         ELSE LET sel == groupbox_select_area_selection(out, selected_area, selected_screen)
              IN /\ selected_area' = sel.area
                 /\ selected_screen' = sel.screen
                 /\ lbl_whole_screen_notice' = FALSE
                 /\ last' = Log("select_area", slurp_events(out))
  /\ UNCHANGED <<btn_enabled, groupboxFrame>>

\* btn_onclick_select_whole_screen: `screens` is what the enumeration returns,
\* `act` what the user does with the dialog, `known` what the enumeration
\* returns when SelectedScreen is constructed.
groupbox_btn_onclick_select_whole_screen ==
  /\ variant = "groupbox" /\ btn_enabled["select_whole_screen"]
  /\ \E screens \in ScreenLists, known \in ScreenLists :
     \E act \in (IF Len(screens) > 1 THEN DialogActs(screens) ELSE {<<0>>}) :
     LET idx == ScreenSelectionDialog_exec(act) IN
       IF Len(screens) > 1 /\ idx = -1
         THEN /\ last' = Log("select_whole_screen",
                             <<"get_outputs", "dialog", "dismissed">>)
              /\ UNCHANGED <<selected_area, selected_screen, lbl_whole_screen_notice>>
       ELSE IF Len(screens) > 1 /\ SelectedScreen(screens[idx + 1], known) # "ok"
         THEN /\ last' = Log("select_whole_screen",
                             <<"get_outputs">> \o dialog_events(act)
                               \o <<"RuntimeError">>)
              /\ UNCHANGED <<selected_area, selected_screen, lbl_whole_screen_notice>>
       ELSE /\ selected_screen' = IF Len(screens) > 1 THEN screens[idx + 1]
                                                      ELSE selected_screen
            /\ selected_area' = None
            /\ lbl_whole_screen_notice' = TRUE
            /\ last' = Log("select_whole_screen",
                           IF Len(screens) > 1
                             THEN <<"get_outputs">> \o dialog_events(act)
                             ELSE <<"get_outputs">>)
  /\ UNCHANGED <<btn_enabled, groupboxFrame>>

\* get_selection(): self.selected_area or self.selected_screen.
get_selection == IF Truthy(selected_area) THEN selected_area ELSE selected_screen

\* set_buttons_enabled(enabled), called by the window that owns the group box.
groupbox_set_buttons_enabled ==
  /\ variant = "groupbox"
  /\ \E enabled \in BOOLEAN :
       btn_enabled' = [b \in DOMAIN btn_enabled |-> enabled]
  /\ last' = Log("set_buttons_enabled", <<>>)
  /\ UNCHANGED <<selected_area, selected_screen, lbl_whole_screen_notice,
                 groupboxFrame>>

-----------------------------------------------------------------------------
(* src/cute_sway_recorder/config_area.py: ConfigArea *)

\* Another name make_default_file_dest() may draw.
RandomDst == "~/Videos/cute-sbhAb.mp4"

\* __init__.
config_area_init ==
  /\ variant = "config_area"
  /\ lbl_whole_screen_notice = FALSE
  /\ file_dst = DefaultDst
  /\ selected_screen = None
  /\ selected_area = None
  /\ lbl_file_dst = <<"Saving as: ", DefaultDst>>
  /\ use_audio = FALSE
  /\ btn_enabled = [b \in {"pick_dest", "generate_random_dest", "select_area",
                           "select_whole_screen"} |-> TRUE]
  /\ recorder_proc = 0
  /\ is_whole_screen_selected = FALSE
  /\ window_visible = TRUE
  /\ icon_visible = FALSE
  /\ lbl_is_recording = None
  /\ procs = <<>>
  /\ existing = {}
  /\ last = NoLog
  /\ input = None
  /\ result = None
  /\ NoDelayVars

\* What no handler of the ConfigArea changes.
configAreaFrame == <<variant, recorder_proc, is_whole_screen_selected,
                     window_visible, icon_visible, lbl_is_recording, procs,
                     existing, outsideVars>>

\* The mutation of create_config that looks at the area only.
create_config_area_only(area, screen, file_dest, include_audio) ==
  IF Truthy(area) THEN <<area, file_dest, include_audio>>
  ELSE <<>>

\* create_config(): the Config (selection, file_dest, include_audio), or the
\* empty tuple for None, which goes with the "No area selected" warning.
create_config(area, screen, file_dest, include_audio) ==
  IF Truthy(area) THEN <<area, file_dest, include_audio>>
  ELSE IF Truthy(screen) THEN <<screen, file_dest, include_audio>>
  ELSE <<>>

\* The owning window asks for the config when a recording is requested.
config_area_create_config ==
  /\ variant = "config_area"
  /\ LET config == create_config(selected_area, selected_screen, file_dst, use_audio)
     IN last' = LogRet("create_config",
                       IF config = <<>> THEN <<"warning">> ELSE <<>>, config)
  /\ UNCHANGED <<selected_area, selected_screen, file_dst, use_audio, btn_enabled,
                 lbl_whole_screen_notice, lbl_file_dst, configAreaFrame>>

config_area_btn_onclick_select_area ==
  /\ variant = "config_area" /\ btn_enabled["select_area"]
  /\ \E out \in SlurpOutputs \cup {None} :
       IF select_area_raises(out)
         THEN /\ last' = Log("select_area", <<"slurp", "ValueError">>)
              /\ UNCHANGED <<selected_area, selected_screen, lbl_whole_screen_notice>>
         ELSE /\ selected_area' = IF Truthy(out) THEN out ELSE selected_area
              /\ selected_screen' = None
              /\ lbl_whole_screen_notice' = FALSE
              /\ last' = Log("select_area", slurp_events(out))
  /\ UNCHANGED <<file_dst, use_audio, btn_enabled, lbl_file_dst, configAreaFrame>>

config_area_btn_onclick_select_whole_screen ==
  /\ variant = "config_area" /\ btn_enabled["select_whole_screen"]
  /\ \E screens \in ScreenLists, known \in ScreenLists :
     \E act \in (IF Len(screens) > 1 THEN DialogActs(screens) ELSE {<<0>>}) :
     LET idx == ScreenSelectionDialog_exec(act) IN
       IF Len(screens) > 1 /\ idx = -1
         THEN /\ last' = Log("select_whole_screen",
                             <<"get_outputs", "dialog", "dismissed">>)
              /\ UNCHANGED <<selected_area, selected_screen, lbl_whole_screen_notice>>
       ELSE IF Len(screens) > 1 /\ SelectedScreen(screens[idx + 1], known) # "ok"
         THEN /\ last' = Log("select_whole_screen",
                             <<"get_outputs">> \o dialog_events(act)
                               \o <<"RuntimeError">>)
              /\ UNCHANGED <<selected_area, selected_screen, lbl_whole_screen_notice>>
       ELSE /\ selected_screen' = IF Len(screens) > 1 THEN screens[idx + 1]
                                                      ELSE selected_screen
            /\ selected_area' = None
            /\ lbl_whole_screen_notice' = TRUE
            /\ last' = Log("select_whole_screen",
                           IF Len(screens) > 1
                             THEN <<"get_outputs">> \o dialog_events(act)
                             ELSE <<"get_outputs">>)
  /\ UNCHANGED <<file_dst, use_audio, btn_enabled, lbl_file_dst, configAreaFrame>>

config_area_checkbox_use_audio ==
  /\ variant = "config_area"
  /\ use_audio' = ~use_audio
  /\ last' = Log("checkbox_use_audio", <<>>)
  /\ UNCHANGED <<selected_area, selected_screen, file_dst, btn_enabled,
                 lbl_whole_screen_notice, lbl_file_dst, configAreaFrame>>

config_area_btn_onclick_pick_dst ==
  /\ variant = "config_area" /\ btn_enabled["pick_dest"]
  /\ \E picked \in DialogDests :
       IF picked = ""
         THEN UNCHANGED <<file_dst, lbl_file_dst>>
         ELSE LET dest == IF PATTERN_FILE_WITH_SUFFIX(picked)
                            THEN picked ELSE picked \o ".mp4"
              IN /\ file_dst' = dest
                 /\ lbl_file_dst' = <<"Saving as: ", dest>>
  /\ last' = Log("pick_dst", <<"getSaveFileName">>)
  /\ UNCHANGED <<selected_area, selected_screen, use_audio, btn_enabled,
                 lbl_whole_screen_notice, configAreaFrame>>

config_area_btn_onclick_generate_random_dest ==
  /\ variant = "config_area" /\ btn_enabled["generate_random_dest"]
  /\ \E dest \in {DefaultDst, RandomDst} :
       /\ file_dst' = dest
       /\ lbl_file_dst' = <<"Saving as: ", dest>>
  /\ last' = Log("generate_random_dest", <<>>)
  /\ UNCHANGED <<selected_area, selected_screen, use_audio, btn_enabled,
                 lbl_whole_screen_notice, configAreaFrame>>

\* disable_all_buttons() and enable_all_buttons(), called by the owning window.
config_area_set_all_buttons ==
  /\ variant = "config_area"
  /\ \E enabled \in BOOLEAN :
       btn_enabled' = set_buttons_state(btn_enabled,
         {"pick_dest", "generate_random_dest", "select_area", "select_whole_screen"},
         enabled)
  /\ last' = Log("set_all_buttons", <<>>)
  /\ UNCHANGED <<selected_area, selected_screen, file_dst, use_audio,
                 lbl_whole_screen_notice, lbl_file_dst, configAreaFrame>>

-----------------------------------------------------------------------------
(* The environment *)

\* A recorder process exits: after an interrupt, or on its own.
proc_exits ==
  /\ \E p \in DOMAIN procs :
       /\ procs[p].alive
       /\ procs' = [procs EXCEPT ![p] = Exited]
  /\ UNCHANGED <<variant, uiVars, recorder_proc, lbl_is_recording, existing,
                 last, outsideVars>>

-----------------------------------------------------------------------------
(* The delayed start: the session controller with its DelayScheduler *)

\* The longest delay a recording is asked to start after, in seconds.
MaxDelay == 5

\* The mutation of the countdown that goes on after it has completed.
DelayScheduler_tick_goes_on(sch) ==
  LET remaining == sch.remaining - 1
  IN [sch EXCEPT !.remaining = remaining,
                 !.ticks = Append(@, remaining),
                 !.completes = IF remaining <= 0 THEN @ + 1 ELSE @]

\* The mutation of cancel that marks the cancellation and lets the ticks run.
DelayScheduler_cancel_keeps_ticking(sch) == [sch EXCEPT !.cancelled = TRUE]

\* start(seconds, on_tick, on_complete), for seconds > 0.
DelayScheduler_start(seconds) ==
  [active |-> TRUE, seconds |-> seconds, remaining |-> seconds, ticks |-> <<>>,
   completes |-> 0, cancelled |-> FALSE]

\* One tick: the remaining time goes down by one and on_tick is called with
\* it; at 0, on_complete is called and the scheduler ends itself.
DelayScheduler_tick(sch) ==
  LET remaining == sch.remaining - 1
  IN [sch EXCEPT !.remaining = remaining,
                 !.ticks = Append(@, remaining),
                 !.completes = IF remaining = 0 THEN @ + 1 ELSE @,
                 !.active = remaining > 0]

\* cancel(handle): the ticking stops.
DelayScheduler_cancel(sch) == [sch EXCEPT !.active = FALSE, !.cancelled = TRUE]

\* The mutation of the start that never goes through the scheduler.
skips_scheduler_always(seconds) == TRUE

\* A start with delay 0 skips the scheduler.
skips_scheduler(seconds) == seconds = 0

\* RecordingConfig.build for a selection that is set.
build(area, screen, destination, include_audio, seconds) ==
  [target |-> IF area # None THEN <<"Area", area>> ELSE <<"Screen", screen>>,
   destination |-> destination, include_audio |-> include_audio,
   delay_seconds |-> seconds, extra_flags |-> <<>>]

\* The invocation ProcessController.start spawns for the config.
session_invocation(config) ==
  start_recording(config.destination, config.include_audio,
                  IF config.target[1] = "Area" THEN config.target[2] ELSE None,
                  IF config.target[1] = "Screen" THEN config.target[2] ELSE None).argv

session_init ==
  /\ variant = "session"
  /\ selected_area = None
  /\ selected_screen = None
  /\ recorder_proc = 0
  /\ file_dst = DefaultDst
  /\ is_whole_screen_selected = FALSE
  /\ use_audio = FALSE
  /\ btn_enabled = [b \in {} |-> TRUE]
  /\ window_visible = TRUE
  /\ icon_visible = FALSE
  /\ lbl_is_recording = None
  /\ lbl_whole_screen_notice = FALSE
  /\ lbl_file_dst = <<None, None>>
  /\ procs = <<>>
  /\ existing \in {{}, {DefaultDst}}
  /\ last = NoLog
  /\ input = None
  /\ result = None
  /\ delay_seconds \in 0 .. MaxDelay
  /\ session = IdleSession
  /\ scheduler = IdleScheduler

\* What no intent of the session changes.
sessionFrame == <<variant, recorder_proc, file_dst, is_whole_screen_selected,
                  use_audio, btn_enabled, window_visible, icon_visible,
                  lbl_is_recording, lbl_whole_screen_notice, lbl_file_dst,
                  input, result, delay_seconds>>

\* select_area and select_screen of the SelectionState.
session_select ==
  /\ variant = "session"
  /\ \E target \in {<<"10,10 40x40", None>>, <<None, "eDP-1">>} :
       /\ selected_area' = target[1]
       /\ selected_screen' = target[2]
  /\ last' = Log("select", <<>>)
  /\ UNCHANGED <<session, scheduler, procs, existing, sessionFrame>>

\* ProcessController.start for `config`: the process is spawned and the
\* session records, or the spawn fails and the session is back in Idle.
session_start_process(config, spawn_ok, before) ==
  IF spawn_ok
    THEN /\ procs' = Append(procs, Popen(session_invocation(config)))
         /\ existing' = existing \cup {config.destination}
         /\ session' = [state |-> "Recording", config |-> config,
                        process_handle |-> Len(procs) + 1,
                        delay_remaining |-> NoDelay]
         /\ last' = Log(before[1], before[2] \o <<"ProcessController.start", "spawned">>)
    ELSE /\ session' = IdleSession
         /\ last' = Log(before[1], before[2] \o <<"ProcessController.start", "SpawnFailed">>)
         /\ UNCHANGED <<procs, existing>>

\* The intent RequestStart. `confirmed` is the answer of UI.confirm when the
\* destination exists, `spawn_ok` whether the recorder can be launched.
session_RequestStart ==
  /\ variant = "session"
  /\ Len(procs) < MaxProcs
  /\ \E confirmed \in BOOLEAN, spawn_ok \in BOOLEAN :
       LET asked == IF file_dst \in existing
                      THEN <<"confirm", IF confirmed THEN "Yes" ELSE "No">>
                      ELSE <<>>
           config == build(selected_area, selected_screen, file_dst, use_audio,
                           delay_seconds)
       IN IF session.state # "Idle"
            THEN /\ last' = Log("RequestStart", <<"ignored">>)
                 /\ UNCHANGED <<session, scheduler, procs, existing>>
          ELSE IF file_dst \in existing /\ ~confirmed
            THEN /\ last' = Log("RequestStart", asked)
                 /\ UNCHANGED <<session, scheduler, procs, existing>>
          ELSE IF selected_area = None /\ selected_screen = None
            THEN /\ last' = Log("RequestStart", asked \o <<"NoTargetSelected">>)
                 /\ UNCHANGED <<session, scheduler, procs, existing>>
          ELSE IF skips_scheduler(delay_seconds)
            THEN /\ session_start_process(config, spawn_ok,
                                          <<"RequestStart", asked \o <<"build">>>>)
                 /\ UNCHANGED scheduler
          ELSE /\ scheduler' = DelayScheduler_start(delay_seconds)
               /\ session' = [state |-> "CountingDown", config |-> config,
                              process_handle |-> 0,
                              delay_remaining |-> delay_seconds]
               /\ last' = Log("RequestStart",
                              asked \o <<"build", "DelayScheduler.start">>)
               /\ UNCHANGED <<procs, existing>>
  /\ UNCHANGED <<selected_area, selected_screen, sessionFrame>>

\* The tick source fires, one second after the start or the tick before.
session_tick ==
  /\ variant = "session"
  /\ scheduler.active
  /\ scheduler' = DelayScheduler_tick(scheduler)
  /\ \E spawn_ok \in BOOLEAN :
       IF scheduler'.completes > scheduler.completes
         THEN session_start_process(session.config, spawn_ok,
                                    <<"tick", <<"on_tick", "on_complete">>>>)
         ELSE /\ session' = [session EXCEPT !.delay_remaining = scheduler'.remaining]
              /\ last' = Log("tick", <<"on_tick">>)
              /\ UNCHANGED <<procs, existing>>
  /\ UNCHANGED <<selected_area, selected_screen, sessionFrame>>

\* The intent RequestStop: it cancels a countdown, stops a recording, and
\* does nothing in Idle.
session_RequestStop ==
  /\ variant = "session"
  /\ IF session.state = "CountingDown"
       THEN /\ scheduler' = DelayScheduler_cancel(scheduler)
            /\ session' = IdleSession
            /\ last' = Log("RequestStop", <<"DelayScheduler.cancel">>)
            /\ UNCHANGED procs
     ELSE IF session.state = "Recording"
       THEN /\ procs' = send_signal(procs, session.process_handle)
            /\ session' = IdleSession
            /\ last' = Log("RequestStop", <<"ProcessController.stop">>)
            /\ UNCHANGED scheduler
     ELSE /\ last' = Log("RequestStop", <<>>)
          /\ UNCHANGED <<session, scheduler, procs>>
  /\ UNCHANGED <<selected_area, selected_screen, existing, sessionFrame>>

\* The ProcessController sees that the recorder has exited by itself.
session_process_exited ==
  /\ variant = "session"
  /\ session.state = "Recording"
  /\ ~procs[session.process_handle].alive
  /\ session' = IdleSession
  /\ last' = Log("process_exited", <<"ProcessExited">>)
  /\ UNCHANGED <<selected_area, selected_screen, scheduler, procs, existing,
                 sessionFrame>>

SessionNext ==
  \/ session_select
  \/ session_RequestStart
  \/ session_tick
  \/ session_RequestStop
  \/ session_process_exited
  \/ proc_exits

SpecSession == session_init /\ [][SessionNext]_vars

-----------------------------------------------------------------------------
(* SelectedArea on arbitrary strings *)

\* The longest string handed to SelectedArea.
MaxLen == 8

\* The characters the strings are made of.
Alphabet == {"1", ",", " ", "x"}

area_init ==
  /\ variant = "SelectedArea"
  /\ input = <<>>
  /\ result = None
  /\ selected_area = None
  /\ selected_screen = None
  /\ recorder_proc = 0
  /\ file_dst = None
  /\ is_whole_screen_selected = FALSE
  /\ use_audio = FALSE
  /\ btn_enabled = [b \in {} |-> TRUE]
  /\ window_visible = FALSE
  /\ icon_visible = FALSE
  /\ lbl_is_recording = None
  /\ lbl_whole_screen_notice = FALSE
  /\ lbl_file_dst = <<None, None>>
  /\ procs = <<>>
  /\ existing = {}
  /\ last = NoLog
  /\ NoDelayVars

areaFrame == <<variant, selected_area, selected_screen, recorder_proc, file_dst,
               is_whole_screen_selected, use_audio, btn_enabled, window_visible,
               icon_visible, lbl_is_recording, lbl_whole_screen_notice,
               lbl_file_dst, procs, existing, last, delayVars>>

\* The string grows by one character.
area_append_char ==
  /\ variant = "SelectedArea" /\ result = None
  /\ Len(input) < MaxLen
  /\ \E c \in Alphabet : input' = Append(input, c)
  /\ UNCHANGED <<result, areaFrame>>

\* SelectedArea(input) is constructed.
area_construct ==
  /\ variant = "SelectedArea" /\ result = None
  /\ result' = SelectedArea(input)
  /\ UNCHANGED <<input, areaFrame>>

AreaNext == area_append_char \/ area_construct

SpecArea == area_init /\ [][AreaNext]_vars

-----------------------------------------------------------------------------
(* SelectedScreen in every environment *)

\* The names handed to SelectedScreen: two outputs and one that is none.
ScreenNames == {"eDP-1", "HDMI-A-1", "DP-9"}

\* No construction has been made yet.
NotConstructed == [raised |-> "pending", cause |-> None]

screen_init ==
  /\ variant = "SelectedScreen"
  /\ input \in [s : ScreenNames, env : SUBSET EnvFacts, out : EnumerationOutcomes]
  /\ result = NotConstructed
  /\ selected_area = None
  /\ selected_screen = None
  /\ recorder_proc = 0
  /\ file_dst = None
  /\ is_whole_screen_selected = FALSE
  /\ use_audio = FALSE
  /\ btn_enabled = [b \in {} |-> TRUE]
  /\ window_visible = FALSE
  /\ icon_visible = FALSE
  /\ lbl_is_recording = None
  /\ lbl_whole_screen_notice = FALSE
  /\ lbl_file_dst = <<None, None>>
  /\ procs = <<>>
  /\ existing = {}
  /\ last = NoLog
  /\ NoDelayVars

\* SelectedScreen(input.s) is constructed.
screen_construct ==
  /\ variant = "SelectedScreen" /\ result = NotConstructed
  /\ result' = SelectedScreen_init(input.s, input.env, input.out)
  /\ UNCHANGED <<input, areaFrame>>

ScreenNext == screen_construct

SpecScreen == screen_init /\ [][ScreenNext]_vars

-----------------------------------------------------------------------------
(* src/cute_sway_recorder/config_file.py *)

\* An option of the [DEFAULT] section: absent, or present with its text.
NoOption == [present |-> FALSE, text |-> ""]

Option(texts) == {NoOption} \cup {[present |-> TRUE, text |-> t] : t \in texts}

\* The texts of the options in the files of this model.
AudioTexts == {"yes", "no", "maybe", "%"}
DelayTexts == {"0", "1", "3", "-1", "-2", "soon", "3%"}
DestTexts == {"/tmp/out.mp4", "~/Videos/out.mp4", "/nonexistent/dir/out.mp4",
              "/tmp", "", "/tmp/100%.mp4"}
FlagsTexts == {"-r 30", "-p q=50%"}

\* BasicInterpolation: a "%" followed by neither "%" nor "(" cannot be read.
bad_interpolation(text) == text \in {"%", "3%", "/tmp/100%.mp4", "-p q=50%"}

\* RawConfigParser.BOOLEAN_STATES, as far as the texts above go.
BOOLEAN_STATES(text) ==
  CASE text = "yes" -> <<TRUE>>
    [] text = "no" -> <<FALSE>>
    [] OTHER -> <<>>

\* int(text): the one-element tuple of the number, or the empty tuple when
\* int raises ValueError.
int(text) ==
  CASE text = "0" -> <<0>>
    [] text = "1" -> <<1>>
    [] text = "3" -> <<3>>
    [] text = "-1" -> <<-1>>
    [] text = "-2" -> <<-2>>
    [] OTHER -> <<>>

\* parser.get("DEFAULT", option, fallback=...): the text, interpolated.
parser_get(option, fallback) ==
  IF ~option.present THEN [raised |-> None, value |-> fallback]
  ELSE IF bad_interpolation(option.text)
    THEN [raised |-> "InterpolationSyntaxError", value |-> fallback]
  ELSE [raised |-> None, value |-> option.text]

\* parser.getboolean("DEFAULT", option, fallback=False).
parser_getboolean(option) ==
  IF ~option.present THEN [raised |-> None, value |-> FALSE]
  ELSE IF bad_interpolation(option.text)
    THEN [raised |-> "InterpolationSyntaxError", value |-> FALSE]
  ELSE IF BOOLEAN_STATES(option.text) = <<>>
    THEN [raised |-> "ValueError", value |-> FALSE]
  ELSE [raised |-> None, value |-> BOOLEAN_STATES(option.text)[1]]

\* parser.getint("DEFAULT", option, fallback=0).
parser_getint(option) ==
  IF ~option.present THEN [raised |-> None, value |-> 0]
  ELSE IF bad_interpolation(option.text)
    THEN [raised |-> "InterpolationSyntaxError", value |-> 0]
  ELSE IF int(option.text) = <<>>
    THEN [raised |-> "ValueError", value |-> 0]
  ELSE [raised |-> None, value |-> int(option.text)[1]]

\* The file system the destinations are checked against: /tmp and ~/Videos
\* are directories, /nonexistent is not there.
path_name(path) == IF path \in {"", "/"} THEN "" ELSE path
path_is_dir(path) == path \in {"/tmp", "/home/user/Videos", "/", "."}
expanduser_resolve(path) ==
  CASE path = "~/Videos/out.mp4" -> "/home/user/Videos/out.mp4"
    [] path = "" -> "/home/user"
    [] OTHER -> path
resolved_parent(path) ==
  CASE path = "/tmp/out.mp4" -> "/tmp"
    [] path = "~/Videos/out.mp4" -> "/home/user/Videos"
    [] path = "/nonexistent/dir/out.mp4" -> "/nonexistent/dir"
    [] path = "/tmp" -> "/"
    [] path = "" -> "/home"
    [] OTHER -> "/"

\* validate_file_dest(file_dest): the ValueError it raises, or None.
validate_file_dest(path) ==
  IF path_name(path) = "" THEN "ValueError"
  ELSE IF path_is_dir(path) THEN "ValueError"
  ELSE IF ~path_is_dir(resolved_parent(path)) THEN "ValueError"
  ELSE None

\* The mutation of parse that takes a negative delay as it is.
delay_accepted_any(delay) == TRUE

\* Lines 70-71: a negative delay is rejected with a ValueError.
delay_accepted(delay) == delay >= 0

\* ConfigFile(), the built-in defaults.
ConfigFile == [file_dest |-> None, include_audio |-> FALSE, delay |-> 0, flags |-> ""]

\* What parser.read does with the file: it reads it, or raises.
ReadOutcomes == {"ok", "ParsingError", "DuplicateOptionError"}

\* ConfigFile.parse(config_file_path): the error that leaves it, if any, and
\* the ConfigFile it returns otherwise. `src` tells whether the file exists,
\* what reading it does, and the options of its [DEFAULT] section.
parse(src) ==
  LET flags == parser_get(src.flags, "")
      include_audio == parser_getboolean(src.include_audio)
      delay == parser_getint(src.delay)
      file_dest_str == parser_get(src.file_dest, None)
      c1 == [ConfigFile EXCEPT !.flags = flags.value]
      c2 == IF include_audio.raised = None
              THEN [c1 EXCEPT !.include_audio = include_audio.value] ELSE c1
      c3 == IF delay.raised = None /\ delay_accepted(delay.value)
              THEN [c2 EXCEPT !.delay = delay.value] ELSE c2
      c4 == IF src.file_dest.present /\ file_dest_str.raised = None
                 /\ validate_file_dest(file_dest_str.value) = None
              THEN [c3 EXCEPT !.file_dest = expanduser_resolve(file_dest_str.value)]
              ELSE c3
  IN IF ~src.exists THEN [raised |-> None, config |-> ConfigFile]
     ELSE IF src.read = "ParsingError" THEN [raised |-> None, config |-> ConfigFile]
     ELSE IF src.read # "ok" THEN [raised |-> src.read, config |-> ConfigFile]
     ELSE IF flags.raised # None THEN [raised |-> flags.raised, config |-> ConfigFile]
     ELSE IF include_audio.raised \notin {None, "ValueError"}
       THEN [raised |-> include_audio.raised, config |-> ConfigFile]
     ELSE IF delay.raised \notin {None, "ValueError"}
       THEN [raised |-> delay.raised, config |-> ConfigFile]
     ELSE IF file_dest_str.raised # None
       THEN [raised |-> file_dest_str.raised, config |-> ConfigFile]
     ELSE [raised |-> None, config |-> c4]

\* parse has not been called yet.
NotParsed == [raised |-> "pending", config |-> ConfigFile]

config_init ==
  /\ variant = "ConfigFile"
  /\ input \in [exists : BOOLEAN, read : ReadOutcomes,
                 include_audio : Option(AudioTexts), delay : Option(DelayTexts),
                 file_dest : Option(DestTexts), flags : Option(FlagsTexts)]
  /\ result = NotParsed
  /\ selected_area = None
  /\ selected_screen = None
  /\ recorder_proc = 0
  /\ file_dst = None
  /\ is_whole_screen_selected = FALSE
  /\ use_audio = FALSE
  /\ btn_enabled = [b \in {} |-> TRUE]
  /\ window_visible = FALSE
  /\ icon_visible = FALSE
  /\ lbl_is_recording = None
  /\ lbl_whole_screen_notice = FALSE
  /\ lbl_file_dst = <<None, None>>
  /\ procs = <<>>
  /\ existing = {}
  /\ last = NoLog
  /\ NoDelayVars

\* ConfigFile.parse(input) is called.
config_parse ==
  /\ variant = "ConfigFile" /\ result = NotParsed
  /\ result' = parse(input)
  /\ UNCHANGED <<input, areaFrame>>

ConfigNext == config_parse

SpecConfig == config_init /\ [][ConfigNext]_vars

-----------------------------------------------------------------------------
(* The specification *)

Init == app_init \/ legacy_init \/ groupbox_init \/ config_area_init

Next ==
  \/ app_btn_onclick_select_area
  \/ app_btn_onclick_select_whole_screen
  \/ app_checkbox_use_audio
  \/ app_btn_onclick_pick_dst
  \/ app_btn_onclick_start_recording
  \/ app_btn_onclick_stop_recording
  \/ app_tray_icon_activated_handler
  \/ legacy_btn_onclick_select_area
  \/ legacy_btn_onclick_start_recording
  \/ legacy_btn_onclick_stop_recording
  \/ legacy_btn_onclick_pick_dst
  \/ groupbox_btn_onclick_select_area
  \/ groupbox_btn_onclick_select_whole_screen
  \/ groupbox_set_buttons_enabled
  \/ config_area_create_config
  \/ config_area_btn_onclick_select_area
  \/ config_area_btn_onclick_select_whole_screen
  \/ config_area_checkbox_use_audio
  \/ config_area_btn_onclick_pick_dst
  \/ config_area_btn_onclick_generate_random_dest
  \/ config_area_set_all_buttons
  \/ proc_exits

Spec == Init /\ [][Next]_vars

\* The program from main() on: the construction, then the window's handlers.
\* __init__ runs to its end without waiting for anything but the popup.
StartupNext ==
  \/ startup_construct
  \/ app_btn_onclick_select_area
  \/ app_btn_onclick_select_whole_screen
  \/ app_checkbox_use_audio
  \/ app_btn_onclick_pick_dst
  \/ app_btn_onclick_start_recording
  \/ app_btn_onclick_stop_recording
  \/ app_tray_icon_activated_handler
  \/ proc_exits

SpecStartup ==
  startup_init /\ [][StartupNext]_vars /\ WF_vars(startup_construct)

-----------------------------------------------------------------------------
(* The phases of a session, and the intents *)

\* The phase the controller shows: it says RECORDING from a successful spawn
\* (main.py line 300) until the stop handler has signalled (line 313).
Phase == IF lbl_is_recording = "RECORDING" THEN "Recording" ELSE "Idle"

SelectionUnset == selected_area = None /\ selected_screen = None

\* The recorder processes that run and have not been told to stop.
ActiveProcs == {p \in DOMAIN procs : procs[p].alive /\ ~procs[p].interrupted}

\* The stop intent of the package's window: the button, or the tray icon.
app_RequestStop == app_btn_onclick_stop_recording \/ app_tray_icon_activated_handler

\* The last handler was a start that spawned the process recorder_proc, which
\* still runs.
Spawned ==
  /\ last.op = "start_recording"
  /\ Has(last.events, "Popen")
  /\ recorder_proc # 0
  /\ procs[recorder_proc].alive

-----------------------------------------------------------------------------
(* Claims *)

\* C1: the selection never holds an area and a screen together; a completed
\* area selection leaves no screen selected, and a completed screen selection
\* leaves no area selected.
C1_SelectionExclusive ==
  /\ ~(selected_area # None /\ selected_screen # None)
  /\ (last.op = "select_area" /\ ~Has(last.events, "ValueError"))
       => selected_screen = None
  /\ (last.op = "select_whole_screen" /\ ~Has(last.events, "dismissed")
        /\ ~Has(last.events, "RuntimeError"))
       => selected_area = None

C1_Witness ==
  /\ variant = "app"
  /\ last.op = "select_area"
  /\ selected_area # None
  /\ procs # <<>>

\* C2: at no time do two recorder processes run that have not been told to
\* stop (start is never invoked while an earlier process is still active).
C2_OneActiveRecorder == Cardinality(ActiveProcs) <= 1

\* The same for the window of src/cute_sway_recorder/main.py alone, whose
\* start button is disabled while a recording runs.
AppOneActiveRecorder == variant = "app" => Cardinality(ActiveProcs) <= 1

\* C3: a start from Idle with a selection set and no existing destination
\* calls start_recording exactly once, and, the spawn succeeding, leaves the
\* session in Recording with the one new process as its recorder.
C3_StartFromIdleRecords ==
  (/\ variant = "app"
   /\ last.op = "start_recording"
   /\ ~SelectionUnset
   /\ ~Has(last.events, "question"))
  => /\ Count(last.events, "start_recording") = 1
     /\ Has(last.events, "Popen") \/ Has(last.events, "OSError")
     /\ Has(last.events, "Popen")
          => /\ Phase = "Recording"
             /\ Count(last.events, "Popen") = 1
             /\ recorder_proc = Len(procs)
             /\ btn_enabled["stop_recording"]
             /\ ~btn_enabled["start_recording"]

C3_Witness ==
  /\ variant = "app"
  /\ last = Log("start_recording", <<"buttons", "start_recording", "Popen">>)
  /\ Phase = "Recording"
  /\ procs[recorder_proc].alive

\* C4: a stop in Recording calls send_signal(SIGINT) on the recorder process
\* exactly once and leaves the session Idle; the process is not waited for.
C4_StopWhileRecording ==
  [][(app_RequestStop /\ Phase = "Recording")
       => /\ Count(last'.events, "send_signal") = 1
          /\ recorder_proc # 0
          /\ procs' = [procs EXCEPT
                         ![recorder_proc].interrupted = procs[recorder_proc].alive]
          /\ Phase' = "Idle"
          /\ ~btn_enabled'["stop_recording"]
          /\ btn_enabled'["start_recording"]]_vars

C4_Witness ==
  /\ variant = "app"
  /\ last.op = "stop_recording"
  /\ Has(last.events, "send_signal")
  /\ procs[recorder_proc].alive
  /\ procs[recorder_proc].interrupted
  /\ Phase = "Idle"

\* C5: a stop while the session is Idle does nothing: no signal is sent, no
\* error is raised and the state stays as it is.
C5_StopWhileIdleIsNoOp ==
  [][((app_RequestStop \/ legacy_btn_onclick_stop_recording) /\ Phase = "Idle")
       => /\ ~Has(last'.events, "send_signal")
          /\ ~Has(last'.events, "AttributeError")
          /\ UNCHANGED <<uiVars, recorder_proc, lbl_is_recording, procs>>]_vars

\* C6 as claimed: create_config returns None iff nothing is selected, and a
\* start with nothing selected shows the "No area selected" warning, spawns
\* nothing and stays Idle.
C6_NoTargetSelectedAlways ==
  /\ last.op = "create_config"
       => (last.ret = <<>> <=> SelectionUnset)
  /\ (variant = "app" /\ last.op = "start_recording" /\ SelectionUnset)
       => /\ Has(last.events, "warning")
          /\ ~Has(last.events, "Popen")
          /\ Phase = "Idle"

\* C6, amended: create_config returns None (with the warning) iff nothing is
\* selected, whatever the destination and the audio flag; a start with nothing
\* selected spawns nothing, changes no button and stays Idle, and shows the
\* warning unless the overwrite question was answered No.
C6_NoTargetSelected ==
  /\ last.op = "create_config"
       => /\ last.ret = <<>> <=> SelectionUnset
          /\ Has(last.events, "warning") <=> SelectionUnset
          /\ ~SelectionUnset
               => /\ last.ret[1] \in {selected_area, selected_screen}
                  /\ last.ret[2] = file_dst
                  /\ last.ret[3] = use_audio
  /\ (variant = "app" /\ last.op = "start_recording" /\ SelectionUnset)
       => /\ Has(last.events, "warning") <=> last.events # <<"question", "No">>
          /\ ~Has(last.events, "Popen")
          /\ ~Has(last.events, "start_recording")
          /\ ~Has(last.events, "buttons")
          /\ Phase = "Idle"

C6_Witness ==
  /\ variant = "app"
  /\ SelectionUnset
  /\ last = Log("start_recording", <<"question", "Yes", "warning">>)

\* C7: when the destination exists and the overwrite question is answered No,
\* the start handler ends there: no process is spawned, the session stays Idle,
\* and the selection, the destination, the buttons and the window stay as they
\* were.
C7_DeclinedOverwriteAborts ==
  [][(/\ app_btn_onclick_start_recording
      /\ file_dst \in existing
      /\ Len(last'.events) >= 2
      /\ last'.events[1] = "question"
      /\ last'.events[2] = "No")
       => /\ last'.events = <<"question", "No">>
          /\ Phase = "Idle"
          /\ Phase' = "Idle"
          /\ UNCHANGED <<procs, recorder_proc, selected_area, selected_screen,
                         file_dst, is_whole_screen_selected, use_audio,
                         btn_enabled, window_visible, icon_visible,
                         lbl_whole_screen_notice, existing>>]_vars

C7_Witness ==
  /\ variant = "app"
  /\ last = Log("start_recording", <<"question", "No">>)
  /\ selected_area # None
  /\ file_dst \in existing
  /\ procs = <<>>

\* C8: a start asks the overwrite question once if the destination exists and
\* not at all otherwise; it asks in Idle and before anything else the handler
\* does (before the window is hidden, the buttons change or the process is
\* spawned).
C8_OverwriteQuestionOnceAndFirst ==
  [][app_btn_onclick_start_recording
       => /\ Count(last'.events, "question")
               = (IF file_dst \in existing THEN 1 ELSE 0)
          /\ Has(last'.events, "question")
               => /\ last'.events[1] = "question"
                  /\ Phase = "Idle"
                  /\ ~btn_enabled["stop_recording"]]_vars

C8_Witness ==
  /\ variant = "app"
  /\ last = Log("start_recording",
                <<"question", "Yes", "buttons", "start_recording", "Popen">>)

\* The invocation as the claim C9 gives it, for a config without extra flags.
InvocationOf(dst, audio, area, screen) ==
  <<"wf-recorder", "-f", dst>>
    \o (IF audio THEN <<"--audio">> ELSE <<>>)
    \o (IF area # None THEN <<"--geometry", area>>
        ELSE IF screen # None THEN <<"--output", screen>>
        ELSE <<>>)

IsNumber(s, i, j) == i <= j /\ \A m \in i .. j : s[m] \in Digits

\* s is of the form <int>,<int> <int>x<int>.
IsAreaForm(s) ==
  \E c, b, x \in 1 .. Len(s) :
    /\ c < b /\ b < x
    /\ s[c] = "," /\ s[b] = " " /\ s[x] = "x"
    /\ IsNumber(s, 1, c - 1)
    /\ IsNumber(s, c + 1, b - 1)
    /\ IsNumber(s, b + 1, x - 1)
    /\ IsNumber(s, x + 1, Len(s))

\* C10: SelectedArea(s) succeeds iff s is of the form <int>,<int> <int>x<int>,
\* and raises ValueError for every other string.
C10_SelectedAreaAcceptsExactlyTheForm ==
  (variant = "SelectedArea" /\ result # None)
    => (result = "ok" <=> IsAreaForm(input))

\* The enumeration of the construction in `input` succeeded.
EnumerationSucceeded ==
  /\ detect_compositor(input.env) # "ValueError"
  /\ input.out.err = None

\* C11: constructing a SelectedScreen for s raises ValueError iff s is not
\* one of the outputs the enumeration returned; for a member, the enumeration
\* succeeding, the construction succeeds.
C11_UnknownScreenRaisesValueError ==
  (variant = "SelectedScreen" /\ result # NotConstructed /\ EnumerationSucceeded)
    => /\ result.raised = "ValueError" <=> input.s \notin Range(input.out.screens)
       /\ input.s \in Range(input.out.screens) => result.raised = None

\* What the code does instead: it raises RuntimeError, wrapping the
\* ValueError, iff s is not one of the outputs, and succeeds for a member.
SelectedScreenRaisesRuntimeError ==
  (variant = "SelectedScreen" /\ result # NotConstructed /\ EnumerationSucceeded)
    => /\ result.raised = "RuntimeError" <=> input.s \notin Range(input.out.screens)
       /\ result.raised # None => result.cause = "ValueError"
       /\ input.s \in Range(input.out.screens) => result.raised = None

\* What a session consists of: the selection, the destination, the widgets,
\* the phase, the process handle and the processes.
sessionState == <<uiVars, lbl_is_recording, recorder_proc, procs, existing>>

\* C12: a validation error leaves the session as it was: the ValueError of
\* select_area, the error of SelectedScreen for an unknown output, and the
\* "No area selected" warning of a start with nothing selected (which such a
\* start shows unless the overwrite question was answered No).
C12_ValidationErrorsChangeNothing ==
  [][/\ ((groupbox_btn_onclick_select_area \/ config_area_btn_onclick_select_area)
           /\ Has(last'.events, "ValueError"))
          => UNCHANGED sessionState
     /\ ((groupbox_btn_onclick_select_whole_screen
            \/ config_area_btn_onclick_select_whole_screen)
           /\ Has(last'.events, "RuntimeError"))
          => UNCHANGED sessionState
     /\ ((app_btn_onclick_start_recording \/ legacy_btn_onclick_start_recording)
           /\ SelectionUnset
           /\ last'.events # <<"question", "No">>)
          => /\ Has(last'.events, "warning")
             /\ UNCHANGED sessionState]_vars

C12_Witness ==
  /\ variant = "groupbox"
  /\ last = Log("select_area", <<"slurp", "ValueError">>)
  /\ selected_screen = "HDMI-A-1"
  /\ lbl_whole_screen_notice

\* C13: a countdown started with N > 0 seconds delivers the ticks N-1, N-2,
\* ... in this order, never more than N of them; on_complete is called once,
\* with the tick that delivers 0, and the scheduler has then ended, so that no
\* tick follows; until then, unless cancelled, it keeps ticking.
C13_CountdownTicks ==
  (variant = "session" /\ scheduler.seconds > 0)
    => /\ scheduler.remaining >= 0
       /\ Len(scheduler.ticks) = scheduler.seconds - scheduler.remaining
       /\ \A i \in DOMAIN scheduler.ticks :
            scheduler.ticks[i] = scheduler.seconds - i
       /\ scheduler.completes = (IF scheduler.remaining = 0 THEN 1 ELSE 0)
       /\ scheduler.completes = 1 => ~scheduler.active
       /\ (scheduler.remaining > 0 /\ ~scheduler.cancelled) => scheduler.active

C13_Witness ==
  /\ variant = "session"
  /\ scheduler.seconds = 5
  /\ scheduler.ticks = <<4, 3, 2, 1, 0>>
  /\ scheduler.completes = 1
  /\ ~scheduler.active

\* C14: a RequestStop in CountingDown cancels the countdown and leaves the
\* session Idle with no process spawned; from then on, until the next start,
\* no tick is delivered and on_complete is not called, and any later process
\* comes from a new RequestStart.
C14_CancelWins ==
  [][/\ (session_RequestStop /\ session.state = "CountingDown")
          => /\ session' = IdleSession
             /\ procs' = procs
             /\ scheduler'.cancelled
             /\ ~scheduler'.active
             /\ scheduler'.completes = 0
     /\ (variant = "session" /\ scheduler.cancelled)
          => /\ \/ /\ scheduler'.ticks = scheduler.ticks
                   /\ scheduler'.completes = 0
                \/ /\ last'.op = "RequestStart"
                   /\ scheduler'.ticks = <<>>
                   /\ ~scheduler'.cancelled
             /\ Len(procs') > Len(procs) => last'.op = "RequestStart"]_vars

C14_Witness ==
  /\ variant = "session"
  /\ last = Log("RequestStop", <<"DelayScheduler.cancel">>)
  /\ scheduler.cancelled
  /\ scheduler.seconds = 3
  /\ scheduler.remaining = 1
  /\ session = IdleSession
  /\ procs = <<>>

\* A RequestStart that the session takes up: in Idle, with a selection, and
\* not declined at the overwrite question.
session_StartAccepted ==
  /\ session_RequestStart
  /\ session.state = "Idle"
  /\ ~SelectionUnset
  /\ last'.events # <<"confirm", "No">>

\* C15: a start in Idle with a selection and a delay > 0 starts the countdown
\* and spawns nothing; the one process of the attempt is spawned by the tick
\* that completes the countdown, which leaves the session in Recording. With
\* delay 0 the scheduler is left alone and the start itself spawns.
C15_DelayedStart ==
  [][/\ (session_StartAccepted /\ delay_seconds > 0)
          => /\ session'.state = "CountingDown"
             /\ procs' = procs
             /\ scheduler'.active
             /\ scheduler'.remaining = delay_seconds
             /\ ~Has(last'.events, "ProcessController.start")
     /\ (session_StartAccepted /\ delay_seconds = 0)
          => /\ scheduler' = scheduler
             /\ Count(last'.events, "ProcessController.start") = 1
             /\ Has(last'.events, "spawned") => session'.state = "Recording"
     /\ (variant = "session" /\ procs' # procs /\ Len(procs') > Len(procs))
          => /\ Len(procs') = Len(procs) + 1
             /\ session'.state = "Recording"
             /\ session'.process_handle = Len(procs')
             /\ IF delay_seconds > 0
                  THEN /\ session.state = "CountingDown"
                       /\ last'.op = "tick"
                       /\ scheduler.remaining = 1
                       /\ scheduler'.completes = 1
                  ELSE /\ session.state = "Idle"
                       /\ last'.op = "RequestStart"
     /\ (variant = "session" /\ delay_seconds = 0) => scheduler' = IdleScheduler]_vars

C15_Witness ==
  /\ variant = "session"
  /\ delay_seconds = 3
  /\ last = Log("tick", <<"on_tick", "on_complete", "ProcessController.start", "spawned">>)
  /\ scheduler.ticks = <<2, 1, 0>>
  /\ session.state = "Recording"
  /\ Len(procs) = 1

\* C16: when the spawn fails in a start, the session is back in Idle: the
\* start button is enabled again, the stop button is not, the window is
\* there, and no process was spawned in a second try.
C16_SpawnFailedReturnsToIdle ==
  (variant = "app" /\ last.op = "start_recording" /\ Has(last.events, "OSError"))
    => /\ Phase = "Idle"
       /\ app_clickable("start_recording")
       /\ ~btn_enabled["stop_recording"]
       /\ ~Has(last.events, "Popen")
       /\ Count(last.events, "start_recording") = 1

\* What holds of a failed spawn: it is not tried again and no process is
\* recorded, but the buttons stay as the start handler set them.
AppSpawnFailedLeavesButtons ==
  (variant = "app" /\ last.op = "start_recording" /\ Has(last.events, "OSError"))
    => /\ Phase = "Idle"
       /\ ~Has(last.events, "Popen")
       /\ Count(last.events, "start_recording") = 1
       /\ btn_enabled = app_start_buttons(btn_enabled)

\* The recorder of the running session has exited without a stop.
ExitedWhileRecording ==
  /\ variant = "app"
  /\ Phase = "Recording"
  /\ recorder_proc # 0
  /\ ~procs[recorder_proc].alive

\* The steps the window takes by itself, with no intent of the user: every
\* handler of the window runs on a click, so only the environment is left.
app_Unattended == variant = "app" /\ proc_exits

\* C17: when the recorder exits by itself during a recording, the controller
\* notices: a step it takes by itself, without a stop intent, brings the
\* session back to Idle.
C17_ProcessExitIsObserved ==
  ExitedWhileRecording => ENABLED (app_Unattended /\ Phase' = "Idle")

\* The last handler was a stop that ended a recording.
app_SessionStopped ==
  /\ variant = "app"
  /\ last.op = "stop_recording"
  /\ Has(last.events, "send_signal")

\* From here a start can be issued and, the spawn succeeding, records.
app_CanRecordAgain ==
  ENABLED (app_btn_onclick_start_recording /\ Phase' = "Recording")

\* C18: no phase is terminal. After a session that was stopped the session is
\* Idle and a start can record again, as long as the selection is set; a
\* session whose recorder exited by itself gets back to Idle, with the start
\* button enabled, by a step the window takes by itself.
C18_NoTerminalPhase ==
  /\ app_SessionStopped
       => /\ Phase = "Idle"
          /\ (~SelectionUnset /\ Len(procs) < MaxProcs) => app_CanRecordAgain
  /\ ExitedWhileRecording
       => ENABLED (/\ app_Unattended
                   /\ Phase' = "Idle"
                   /\ btn_enabled'["start_recording"])

\* What holds: every stopped session leaves the window in Idle, ready to
\* record again with the selection it has.
AppStoppedSessionCanRecordAgain ==
  app_SessionStopped
    => /\ Phase = "Idle"
       /\ ~SelectionUnset
       /\ app_clickable("start_recording")
       /\ Len(procs) < MaxProcs => app_CanRecordAgain

\* C19 as claimed: whenever the session is Idle its process handle is None.
C19_IdleHasNoHandle ==
  (variant = "app" /\ Phase = "Idle") => recorder_proc = 0

\* C19, amended: the handle is None until the first spawn succeeds; from then
\* on it is the process spawned last, in Idle as in Recording: the stop
\* handler keeps it, and only the next successful start replaces it.
C19_HandleIsLastSpawned ==
  variant = "app"
    => /\ recorder_proc = Len(procs)
       /\ Phase = "Recording" => recorder_proc # 0

C19_Witness ==
  /\ variant = "app"
  /\ Phase = "Idle"
  /\ last.op = "stop_recording"
  /\ recorder_proc = 1
  /\ procs[1].interrupted

\* The value an option is configured to, when it is a valid one: the empty
\* tuple when it is absent or malformed.
configured_include_audio(option) ==
  IF option.present THEN BOOLEAN_STATES(option.text) ELSE <<>>

configured_delay(option) ==
  IF option.present /\ int(option.text) # <<>> /\ int(option.text)[1] >= 0
    THEN int(option.text) ELSE <<>>

configured_file_dest(option) ==
  IF option.present /\ option.text \in {"/tmp/out.mp4", "~/Videos/out.mp4"}
    THEN <<expanduser_resolve(option.text)>> ELSE <<>>

configured_flags(option) ==
  IF option.present /\ option.text \in {"-r 30"} THEN <<option.text>> ELSE <<>>

\* The field is loaded as configured when that is valid, else as the default.
LoadedOrDefault(loaded, configured, default) ==
  loaded = (IF configured # <<>> THEN configured[1] ELSE default)

\* Every field of the result is loaded by itself.
PerFieldLoaded ==
  /\ result.raised = None
  /\ LoadedOrDefault(result.config.include_audio,
                     configured_include_audio(input.include_audio), FALSE)
  /\ LoadedOrDefault(result.config.delay, configured_delay(input.delay), 0)
  /\ LoadedOrDefault(result.config.file_dest,
                     configured_file_dest(input.file_dest), None)
  /\ LoadedOrDefault(result.config.flags, configured_flags(input.flags), "")

\* C20: loading the defaults is tolerant field by field: whatever mix of
\* valid and malformed options the file holds, the load returns, every valid
\* field with its configured value and every malformed one with its built-in
\* default; a missing file gives the built-in defaults.
C20_PerFieldTolerant ==
  (variant = "ConfigFile" /\ result # NotParsed)
    => /\ (input.exists /\ input.read = "ok") => PerFieldLoaded
       /\ ~input.exists => result = [raised |-> None, config |-> ConfigFile]

\* What holds: the same for files none of whose options holds a "%" that
\* cannot be interpolated; a file that cannot be parsed gives the defaults.
ParseTolerantOfValueErrors ==
  (variant = "ConfigFile" /\ result # NotParsed)
    => /\ (/\ input.exists /\ input.read = "ok"
           /\ \A o \in {input.include_audio, input.delay, input.file_dest,
                         input.flags} : ~(o.present /\ bad_interpolation(o.text)))
            => PerFieldLoaded
       /\ (~input.exists \/ input.read = "ParsingError")
            => result = [raised |-> None, config |-> ConfigFile]

\* C21: the loaded delay is never negative: whenever the load returns, the
\* delay is the integer the file gives when that is >= 0, and the default 0
\* when it is negative.
C21_DelayNeverNegative ==
  (variant = "ConfigFile" /\ result # NotParsed /\ result.raised = None)
    => /\ result.config.delay >= 0
       /\ (/\ input.exists /\ input.read = "ok"
           /\ input.delay.present /\ int(input.delay.text) # <<>>)
            => result.config.delay
                 = (IF int(input.delay.text)[1] >= 0
                      THEN int(input.delay.text)[1] ELSE 0)

C21_Witness ==
  /\ variant = "ConfigFile"
  /\ input.exists /\ input.read = "ok"
  /\ input.delay = [present |-> TRUE, text |-> "-2"]
  /\ input.include_audio = [present |-> TRUE, text |-> "yes"]
  /\ result.raised = None
  /\ result.config.delay = 0
  /\ result.config.include_audio

\* C22: when wf-recorder or slurp is not in PATH, the program shows the fatal
\* popup and exits with status 1, and until then (and ever after) no handler
\* of the window has run and no recorder was spawned.
C22_MissingBinaryIsFatal ==
  /\ [](~(which("wf-recorder") /\ which("slurp"))
          => /\ variant = "startup"
             /\ result \in {"constructing", "exit 1"}
             /\ last.op \in {"init", "__init__"}
             /\ procs = <<>> /\ lbl_is_recording = "Not recording"
             /\ selected_area = None /\ selected_screen = None)
  /\ (~(which("wf-recorder") /\ which("slurp")))
        ~> (/\ result = "exit 1"
            /\ \E i \in DOMAIN Executables :
                 /\ ~which(Executables[i])
                 /\ Has(last.events,
                        not_in_PATH(Executables[i])))

C22_Witness ==
  /\ variant = "startup"
  /\ which("wf-recorder") /\ ~which("slurp")
  /\ result = "exit 1"
  /\ Has(last.events, not_in_PATH("slurp"))
  /\ ~window_visible /\ procs = <<>>

\* C23: a start hides the window and shows the tray icon if and only if it
\* goes on to the spawn with a whole screen as its target; it never does for
\* an area, nor when the start is declined or finds nothing selected.
C23_HideIffWholeScreen ==
  [][app_btn_onclick_start_recording
       => LET emitted == Has(last'.events, "window.hide")
              proceeds == Has(last'.events, "start_recording")
          IN /\ emitted <=> (proceeds /\ selected_screen # None)
             /\ emitted <=> Has(last'.events, "icon.show")
             /\ emitted => (selected_area = None /\ ~window_visible' /\ icon_visible')
             /\ ~emitted => UNCHANGED <<window_visible, icon_visible>>
             /\ Has(last'.events, "Popen")
                  => (emitted <=> Has(procs'[recorder_proc'].argv, "--output"))]_vars

C23_Witness ==
  /\ variant = "app"
  /\ Spawned
  /\ Has(last.events, "window.hide")
  /\ selected_screen = "HDMI-A-1"
  /\ Has(procs[recorder_proc].argv, "--output")
  /\ ~window_visible /\ icon_visible

\* C24: an unavailable enumeration backend is found at start-up and ends the
\* program there, so that no intent is handled without a backend: a
\* SelectedScreen, which is only ever constructed while the intent to select
\* a whole screen is handled, never finds that no compositor is detected.
C24_BackendUnavailableFatalAtStartup ==
  (variant = "SelectedScreen" /\ result # NotConstructed)
    => detect_compositor(input.env) # "ValueError"

\* What the code does instead: the missing backend is found by the
\* construction itself, inside the intent, and comes out of it as a
\* RuntimeError like any other failure of the construction.
BackendUnavailableRaisesInIntent ==
  (variant = "SelectedScreen" /\ result # NotConstructed
     /\ detect_compositor(input.env) = "ValueError")
    => result = [raised |-> "RuntimeError", cause |-> "ValueError"]

\* C25: when the area picker is cancelled, the intent to select an area
\* leaves the selection as it was: the area selected before stays, and so
\* does the screen selected before.
C25_CancelledPickerKeepsSelection ==
  [][((app_btn_onclick_select_area \/ groupbox_btn_onclick_select_area)
        /\ Has(last'.events, "cancelled"))
       => UNCHANGED <<selected_area, selected_screen>>]_vars

\* What the code does instead: the area selected before stays, the screen
\* does not, and the window would no longer hide for the next recording.
CancelledPickerDropsScreen ==
  [][((app_btn_onclick_select_area \/ groupbox_btn_onclick_select_area)
        /\ Has(last'.events, "cancelled"))
       => /\ UNCHANGED selected_area
          /\ selected_screen' = None
          /\ ~lbl_whole_screen_notice'
          /\ variant = "app" => ~is_whole_screen_selected']_vars

\* The last handler selected a whole screen and ran to its end, the dialog,
\* if there was one, having been answered with a choice.
WholeScreenSelected ==
  /\ last.op = "select_whole_screen"
  /\ ~Has(last.events, "dismissed") /\ ~Has(last.events, "reject")
  /\ ~Has(last.events, "RuntimeError")

\* C26: after a completed selection of a whole screen, with one output as
\* with several, a selection is set: the start that follows it is not
\* refused for want of a target.
C26_WholeScreenThenStartNotRejected ==
  [][(variant = "app" /\ WholeScreenSelected /\ app_btn_onclick_start_recording)
       => ~Has(last'.events, "warning")]_vars

\* What the code does instead: a choice in the dialog sets the screen, and
\* with one output (no dialog) the screen stays what it was, None included,
\* while the area is cleared and the window announces a whole screen.
WholeScreenSetsScreenOnlyFromDialog ==
  (variant \in {"app", "groupbox"} /\ WholeScreenSelected)
    => /\ selected_area = None
       /\ lbl_whole_screen_notice
       /\ Has(last.events, "dialog") => selected_screen \in Screens

\* C27: when the dialog of screens is closed without a choice, the intent to
\* select a whole screen changes nothing: the area, the screen, the
\* whole-screen flag and the whole-screen notice are what they were.
C27_DismissedDialogChangesNothing ==
  [][((app_btn_onclick_select_whole_screen
         \/ groupbox_btn_onclick_select_whole_screen)
        /\ Has(last'.events, "reject"))
       => UNCHANGED <<selected_area, selected_screen,
                      is_whole_screen_selected, lbl_whole_screen_notice>>]_vars

\* What the code does instead: closing the dialog ends exec() with 0, the
\* index of the first screen, so the handlers never see -1 and go on as if
\* the first screen had been chosen.
DismissedDialogSelectsFirstScreen ==
  [][/\ (app_btn_onclick_select_whole_screen /\ Has(last'.events, "reject"))
          => /\ selected_screen' = "eDP-1"
             /\ selected_area' = None
             /\ is_whole_screen_selected' /\ lbl_whole_screen_notice'
     /\ (groupbox_btn_onclick_select_whole_screen /\ Has(last'.events, "reject")
           /\ ~Has(last'.events, "RuntimeError"))
          => /\ selected_screen' = "eDP-1"
             /\ selected_area' = None
             /\ lbl_whole_screen_notice'
     /\ ~Has(last'.events, "dismissed")]_vars

\* C28: the buttons match the phase in every state of the window: stop is
\* enabled if and only if a recorder was started and not yet stopped, and
\* start, select area, select whole screen and pick destination are enabled
\* if and only if stop is not.
C28_EnablementMatchesPhase ==
  variant = "app"
    => /\ btn_enabled["stop_recording"] <=> Phase = "Recording"
       /\ \A b \in Buttons \ {"stop_recording"} :
            btn_enabled[b] <=> ~btn_enabled["stop_recording"]

\* What holds in every state: the other buttons are enabled if and only if
\* stop is not, and stop is enabled throughout a recording.
AppButtonsFlipTogether ==
  variant = "app"
    => /\ Phase = "Recording" => btn_enabled["stop_recording"]
       /\ \A b \in Buttons \ {"stop_recording"} :
            btn_enabled[b] <=> ~btn_enabled["stop_recording"]

\* The destination in an argument vector of wf-recorder: what follows -f.
recorded_dst(argv) == argv[(CHOOSE i \in DOMAIN argv : argv[i] = "-f") + 1]

\* A stop of the running recording, whose recorder has not exited.
StopOfRecording ==
  /\ app_RequestStop \/ legacy_btn_onclick_stop_recording
  /\ Phase = "Recording"
  /\ recorder_proc # 0 /\ procs[recorder_proc].alive

\* C29: from the spawn of a recorder to the stop of that recording neither
\* the selection nor the destination changes, so the stop reports as "Saved
\* to" the destination the recorder being stopped was started with.
C29_SavedToIsRecordedDestination ==
  [][/\ (variant \in {"app", "legacy"} /\ Phase = "Recording" /\ Phase' = "Recording")
          => UNCHANGED <<selected_area, selected_screen, file_dst>>
     /\ StopOfRecording
          => lbl_file_dst'
               = <<"Saved to: ", recorded_dst(procs[recorder_proc].argv)>>]_vars

\* What holds: in the window of the package the buttons that change the
\* selection and the destination are disabled during a recording, and the
\* stop reports the destination of the recorder it signals.
AppSavedToIsRecordedDestination ==
  [][variant = "app"
       => /\ (Phase = "Recording" /\ Phase' = "Recording")
               => UNCHANGED <<selected_area, selected_screen, file_dst>>
          /\ StopOfRecording
               => lbl_file_dst'
                    = <<"Saved to: ", recorded_dst(procs[recorder_proc].argv)>>]_vars

\* C30: the ValueError of start_recording for an area and a screen together
\* cannot be reached from the window: whatever the intents before, a start
\* never calls start_recording with both a non-empty area and a non-empty
\* screen.
C30_StartNeverPassesAreaAndScreen ==
  [][(variant = "app" /\ app_btn_onclick_start_recording)
       => /\ ~Has(last'.events, "ValueError")
          /\ Has(last'.events, "start_recording")
               => /\ ~(Truthy(selected_area) /\ Truthy(selected_screen))
                  /\ start_recording(file_dst, use_audio, selected_area,
                                     selected_screen).raised = None]_vars

C30_Witness ==
  /\ variant = "app"
  /\ Spawned
  /\ Len(procs) = 2
  /\ Has(procs[1].argv, "--geometry") /\ ~Has(procs[1].argv, "--output")
  /\ Has(procs[2].argv, "--output") /\ ~Has(procs[2].argv, "--geometry")

====
